---- MODULE Spec2Model ----
(***************************************************************************)
(* A model of kglib's diagnosis example (examples/diagnosis/diagnosis.py), *)
(* of the experimental KGCN learner loop (kgcn_experimental/learn/learn.py)*)
(* and of the encoders exercised by kgcn_experimental/encode_test.py.      *)
(*                                                                         *)
(* Each part of the program has a specification of its own over the same   *)
(* variables; the parts that a specification does not run stay idle.       *)
(***************************************************************************)
EXTENDS Integers, Sequences, FiniteSets, TLC

(***************************************************************************)
(* Bounds of the model.                                                    *)
(***************************************************************************)
\* How many create_database calls a run of SpecDb makes at most.
MaxCalls == 3
\* write_predictions_to_typedb: the graphs of a call, the nodes of a graph, the
\* neighbours of a node and the iids of the concepts, at most.
MaxGraphs == 2
MaxNodes == 2
MaxNeighbours == 2
MaxIid == 2
\* get_query_handles: the largest example_id, and the answers handed to a sampler:
\* lists of at most MaxAnswers answers out of MaxAnswerId.
MaxExampleId == 3
MaxAnswers == 3
MaxAnswerId == 2
\* KGCNLearner.__call__: the largest num_training_iterations and log_every_epochs.
MaxIterations == 8
MaxLogEvery == 4
\* graph_to_input_target: the nodes of a graph, at most.
MaxGraphNodes == 2
\* TypeEncoder: the types and the rows of a batch, at most.
MaxTypes == 5
MaxRows == 2
\* AttributeEncoder: the length of what attr_op returns, at most.
MaxAttrLen == 3
\* KGCNLearner: the largest num_processing_steps_tr and num_processing_steps_ge.
MaxSteps == 3
\* clear_unneeded_fields: the nodes and the edges of a graph, at most.
MaxCfNodes == 2
MaxCfEdges == 1

(***************************************************************************)
(* Program constants.                                                      *)
(***************************************************************************)
\* diagnosis.py:44
DATABASE == "diagnosis"
\* diagnosis.py:240, start_patience = patience = 100
start_patience == 100
\* diagnosis.py:241, for epoch in range(1, 200): the exclusive end of the range
EpochRangeEnd == 200

\* encode_test.py:65, the features of a row: the type index and an attribute value
RowLen == 2

\* Names a TypeDB server may hold databases under.
DatabaseNames == {DATABASE, "genealogy", "test"}
\* The validation accuracies test() may report (two levels of accuracy).
ValAccs == {0, 1}

VARIABLES
    \* ---- the TypeDB server and create_database
    databases,      \* the names of the databases the client's server holds
    createCalls,    \* the calls of client.databases().create, in order
    cdb_call,       \* the last create_database call: its argument, the state before, the outcome
    \* ---- diagnosis_example
    pc,             \* the statement diagnosis_example is at
    database,       \* its database argument
    clientOpen,     \* client = TypeDB.core_client(address), not yet closed
    sessionOpen,    \* session = client.session(...), not yet closed
    tx,             \* the write transaction: "none", "open", "committed", "closed"
    error,          \* the exception that ended the function, "none" while there is none
    epoch,          \* the loop variable of the training loop
    best_val_acc,
    patience,
    stopped,        \* the training loop was left by its break
    \* ---- observers of the training loop (history variables)
    below,          \* consecutive epochs, up to now, with val_acc < best_val_acc
    noImprove,      \* consecutive epochs, up to now, whose val_acc did not exceed the best before it
    \* ---- the training loop statement by statement
    last_val_acc,   \* val_acc, as the last test() returned it; 0 before
    passSteps,      \* the steps of the current pass of the loop body, in order: train, test, check
    trainCalls,     \* the calls of train() so far
    testCalls,      \* the calls of test() so far
    \* ---- write_predictions_to_typedb
    wp_pc,          \* "idle", "graphs" (for graph in graphs), "nodes" (for node, data in ...), "returned", "raised"
    numGraphs,      \* len(graphs)
    gi,             \* the graphs entered so far; the current graph is the gi-th
    numNodes,       \* the number of nodes of the current graph
    ni,             \* the nodes of the current graph visited so far
    person,         \* the local person: a concept, or Unbound
    disease,        \* the local disease: a concept, or Unbound
    txLog,          \* the calls on tx, in order: inserts and commits
    qualified,      \* the nodes visited whose prediction is 2 and whose type is a diagnosis type
    wp_error,       \* the exception that ended the function, "none" while there is none
    \* ---- get_query_handles
    example_id,     \* its argument
    qh_pc,          \* the statement it is at
    qh_locals,      \* its locals: per feature, the query and the QueryGraph built for it
    handles,        \* the list it returned, <<>> before
    sampled,        \* the last call of a returned sampler: the handle, the argument, the result
    \* ---- KGCNLearner.__call__
    num_training_iterations,
    log_every_epochs,
    lr_pc,          \* "idle", "loop", "plot", "returned", "raised"
    iteration,      \* the iterations of the loop run so far: the next value of the loop variable
    train_values,   \* the values of the last training run, named by its iteration; Unrun before
    test_values,    \* the values of the last generalisation run, named by its iteration; Unrun before
    logged_iterations,
    losses_tr, corrects_tr, solveds_tr,
    losses_ge, corrects_ge, solveds_ge,
    lr_error,       \* the exception that ended the call, "none" while there is none
    \* ---- graph_to_input_target, as TestGraphToInputTarget calls it
    it_pc,          \* "idle", "created", "encoded", "called"
    it_graph,       \* graph
    input_graph,
    target_graph,
    \* ---- TypeEncoder, as TestTypeEncoder calls it
    te_pc,          \* "idle", "built", "called"
    num_types,
    type_indicator_index,
    te_features,    \* the batch of feature rows the encoder is applied to
    op_return,      \* the return_value of the mock op
    op_calls,       \* the arguments of the calls of op, in order
    encoding,       \* what the encoder returned, NoEncoding before
    \* ---- AttributeEncoder, as TestAttributeEncoder calls it
    ae_pc,          \* "idle", "built", "called", "checked"
    ae_num_types,
    ae_index,       \* type_indicator_index
    ae_features,    \* the feature vector the encoder is applied to
    ae_op_return,   \* the return_value of the mock op
    ae_attr_return, \* the return_value of the mock attr_op
    ae_op_calls,    \* the arguments of the calls of op, in order
    ae_attr_calls,  \* the arguments of the calls of attr_op, in order
    ae_encoding,    \* what the encoder returned, NoEncoding before
    \* ---- KGCNLearner.__call__: the loss ops and the optimizer
    ls_pc,          \* "idle", "model", "losses", "optimizer", "session", "ran", "raised"
    num_processing_steps_tr,
    num_processing_steps_ge,
    loss_ops_tr,    \* the loss ops of the training outputs, one per processing step
    loss_ops_ge,
    loss_op_tr,
    loss_op_ge,
    minimize_calls, \* the arguments of the calls of optimizer.minimize, in order
    step_losses,    \* what the per-step loss ops evaluate to in the last runs of the session
    train_loss,     \* train_values["loss"] of the last training run
    test_loss,      \* test_values["loss"] of the last generalisation run
    ls_error,
    \* ---- clear_unneeded_fields
    cf_pc,          \* "idle", "ready", "cleared", "again", "raised"
    cf_graph,       \* graph, which the function changes in place
    cf_before,      \* graph as it was before the first call
    cf_first,       \* graph as the first call left it
    cf_error

dbVars == <<databases, createCalls, cdb_call>>
exVars == <<pc, database, clientOpen, sessionOpen, tx, error>>
loopVars == <<epoch, best_val_acc, patience, stopped>>
obsVars == <<below, noImprove>>
stepVars == <<last_val_acc, passSteps, trainCalls, testCalls>>
wpVars == <<wp_pc, numGraphs, gi, numNodes, ni, person, disease, txLog, qualified, wp_error>>

\* The variables of the parts other than diagnosis_example and create_database.
qhVars == <<example_id, qh_pc, qh_locals, handles, sampled>>
lrLists == <<logged_iterations, losses_tr, corrects_tr, solveds_tr,
             losses_ge, corrects_ge, solveds_ge>>
lrVars == <<num_training_iterations, log_every_epochs, lr_pc, iteration,
            train_values, test_values, lrLists, lr_error>>
itVars == <<it_pc, it_graph, input_graph, target_graph>>
teVars == <<te_pc, num_types, type_indicator_index, te_features, op_return, op_calls, encoding>>
encVars == <<itVars, teVars>>
\* The variables of AttributeEncoder, of the learner's loss ops and of
\* clear_unneeded_fields.
aeVars == <<ae_pc, ae_num_types, ae_index, ae_features, ae_op_return, ae_attr_return,
            ae_op_calls, ae_attr_calls, ae_encoding>>
lsVars == <<ls_pc, num_processing_steps_tr, num_processing_steps_ge,
            loss_ops_tr, loss_ops_ge, loss_op_tr, loss_op_ge, minimize_calls,
            step_losses, train_loss, test_loss, ls_error>>
cfVars == <<cf_pc, cf_graph, cf_before, cf_first, cf_error>>
otherVars == <<aeVars, lsVars, cfVars>>
farVars == <<wpVars, qhVars, lrVars, encVars, otherVars>>
\* The variables of diagnosis_example, its loop and create_database.
exampleVars == <<dbVars, exVars, loopVars, obsVars, stepVars>>

vars == <<exampleVars, farVars>>

(***************************************************************************)
(* Idle values: the state of a part that a specification does not run.     *)
(***************************************************************************)
NoCall == [database |-> "none", before |-> {}, callsBefore |-> <<>>, result |-> "none"]

IdleDb == databases = {} /\ createCalls = <<>> /\ cdb_call = NoCall
IdleExample ==
    /\ pc = "idle" /\ database = DATABASE /\ clientOpen = FALSE
    /\ sessionOpen = FALSE /\ tx = "none" /\ error = "none"
IdleLoop == epoch = 0 /\ best_val_acc = 0 /\ patience = 0 /\ stopped = FALSE
IdleObs == below = 0 /\ noImprove = 0
IdleSteps == last_val_acc = 0 /\ passSteps = <<>> /\ trainCalls = 0 /\ testCalls = 0
Unbound == [type_label |-> "unbound", iid |-> 0]
IdleWp ==
    /\ wp_pc = "idle" /\ numGraphs = 0 /\ gi = 0 /\ numNodes = 0 /\ ni = 0
    /\ person = Unbound /\ disease = Unbound
    /\ txLog = <<>> /\ qualified = <<>> /\ wp_error = "none"
NotSampled == [handle |-> 0, arg |-> <<>>, result |-> <<>>]
IdleQh ==
    /\ example_id = 0 /\ qh_pc = "idle" /\ qh_locals = <<>> /\ handles = <<>>
    /\ sampled = NotSampled
Unrun == -1
EmptyLists ==
    /\ logged_iterations = <<>>
    /\ losses_tr = <<>> /\ corrects_tr = <<>> /\ solveds_tr = <<>>
    /\ losses_ge = <<>> /\ corrects_ge = <<>> /\ solveds_ge = <<>>
IdleLr ==
    /\ num_training_iterations = 0 /\ log_every_epochs = 1 /\ lr_pc = "idle"
    /\ iteration = 0 /\ train_values = Unrun /\ test_values = Unrun
    /\ EmptyLists
    /\ lr_error = "none"
EmptyGraph == [nodes |-> <<>>, edges |-> <<>>]
NoEncoding == "none"
IdleIt ==
    /\ it_pc = "idle" /\ it_graph = EmptyGraph
    /\ input_graph = EmptyGraph /\ target_graph = EmptyGraph
IdleTe ==
    /\ te_pc = "idle" /\ num_types = 1 /\ type_indicator_index = 0
    /\ te_features = <<>> /\ op_return = "none" /\ op_calls = <<>>
    /\ encoding = NoEncoding
IdleEnc == IdleIt /\ IdleTe
IdleAe ==
    /\ ae_pc = "idle" /\ ae_num_types = 1 /\ ae_index = 0 /\ ae_features = <<>>
    /\ ae_op_return = "none" /\ ae_attr_return = <<>>
    /\ ae_op_calls = <<>> /\ ae_attr_calls = <<>> /\ ae_encoding = NoEncoding
NoOp == [op |-> "none"]
NoLoss == [num |-> 0, den |-> 1]
IdleLs ==
    /\ ls_pc = "idle" /\ num_processing_steps_tr = 0 /\ num_processing_steps_ge = 0
    /\ loss_ops_tr = <<>> /\ loss_ops_ge = <<>> /\ loss_op_tr = NoOp /\ loss_op_ge = NoOp
    /\ minimize_calls = <<>> /\ step_losses = [tr |-> <<>>, ge |-> <<>>]
    /\ train_loss = NoLoss /\ test_loss = NoLoss /\ ls_error = "none"
IdleCf ==
    /\ cf_pc = "idle" /\ cf_graph = EmptyGraph /\ cf_before = EmptyGraph
    /\ cf_first = EmptyGraph /\ cf_error = "none"
IdleOther == IdleAe /\ IdleLs /\ IdleCf
IdleFar == IdleWp /\ IdleQh /\ IdleLr /\ IdleEnc /\ IdleOther
IdleExampleVars == IdleDb /\ IdleExample /\ IdleLoop /\ IdleObs /\ IdleSteps

(***************************************************************************)
(* create_database (diagnosis.py:275-280)                                  *)
(***************************************************************************)
\* A create_database without its check: create is called whatever the server holds.
create_database_unchecked(dbs, calls, db) ==
    [raised |-> "none", databases |-> dbs \cup {db}, calls |-> Append(calls, db)]

\* create_database(client, database): the error it raises ("none": it returns),
\* the server's databases and the create calls after it.
create_database(dbs, calls, db) ==
    IF db \in dbs                                   \* client.databases().contains(database)
      THEN [raised |-> "ValueError", databases |-> dbs, calls |-> calls]
      ELSE [raised |-> "none",                      \* client.databases().create(database)
            databases |-> dbs \cup {db}, calls |-> Append(calls, db)]

\* A call of create_database on the server as it is.
CallCreateDatabase ==
    /\ Len(createCalls) < MaxCalls
    /\ \E db \in DatabaseNames :
         LET r == create_database(databases, createCalls, db) IN
           /\ databases' = r.databases
           /\ createCalls' = r.calls
           /\ cdb_call' = [database |-> db, before |-> databases,
                           callsBefore |-> createCalls,
                           result |-> IF r.raised = "none" THEN "returned" ELSE r.raised]
    /\ UNCHANGED <<exVars, loopVars, obsVars, stepVars, farVars>>

\* The console command `database delete <name>` (diagnosis.py:86-90) between two calls.
ConsoleDeleteDatabase ==
    /\ \E db \in databases : databases' = databases \ {db}
    /\ cdb_call' = NoCall
    /\ UNCHANGED <<createCalls, exVars, loopVars, obsVars, stepVars, farVars>>

InitDb ==
    /\ databases \in SUBSET DatabaseNames
    /\ createCalls = <<>>
    /\ cdb_call = NoCall
    /\ IdleExample /\ IdleLoop /\ IdleObs /\ IdleSteps /\ IdleFar

NextDb == CallCreateDatabase \/ ConsoleDeleteDatabase

SpecDb == InitDb /\ [][NextDb]_vars

\* C1: create_database raises ValueError and never calls create (the databases are
\* unchanged) when the client already holds the database; otherwise it calls create
\* exactly once, with that name, and raises nothing.
C1_CreateDatabase ==
    cdb_call.result # "none" =>
        IF cdb_call.database \in cdb_call.before
          THEN /\ cdb_call.result = "ValueError"
               /\ createCalls = cdb_call.callsBefore
               /\ databases = cdb_call.before
          ELSE /\ cdb_call.result = "returned"
               /\ createCalls = Append(cdb_call.callsBefore, cdb_call.database)

\* A create_database that raised on a database an earlier call created.
C1_Witness ==
    /\ cdb_call.result = "ValueError"
    /\ Len(createCalls) >= 1
    /\ createCalls[Len(createCalls)] = cdb_call.database

(***************************************************************************)
(* diagnosis_example (diagnosis.py:63-272)                                 *)
(***************************************************************************)
\* The exceptions the external calls raise when they fail.
ExternalErrors == {"CalledProcessError", "TypeDBClientException", "RuntimeError"}

\* A call into TypeDB, the data loader or torch at statement `at`: it succeeds, and
\* the function goes on to `nxt`, or it raises `exc`, which ends the function.
ExternalStep(at, nxt, exc) ==
    /\ pc = at
    /\ \/ pc' = nxt /\ error' = error
       \/ pc' = "raised" /\ error' = exc

\* sp.check_call(['./typedb', 'console', '--command=database delete ...'])
DeleteDatabase ==
    /\ ExternalStep("delete_database", "core_client", "CalledProcessError")
    /\ databases' = IF pc' = "raised" THEN databases ELSE databases \ {database}
    /\ UNCHANGED <<createCalls, cdb_call, database, clientOpen, sessionOpen, tx,
                   loopVars, obsVars, stepVars, farVars>>

\* client = TypeDB.core_client(address)
CoreClient ==
    /\ ExternalStep("core_client", "create_database", "TypeDBClientException")
    /\ clientOpen' = (pc' # "raised")
    /\ UNCHANGED <<dbVars, database, sessionOpen, tx, loopVars, obsVars, stepVars, farVars>>

\* create_database(client, database)
CreateDatabase ==
    /\ pc = "create_database"
    /\ LET r == create_database(databases, createCalls, database) IN
         /\ databases' = r.databases
         /\ createCalls' = r.calls
         /\ error' = r.raised
         /\ pc' = IF r.raised = "none" THEN "load_schema" ELSE "raised"
    /\ UNCHANGED <<cdb_call, database, clientOpen, sessionOpen, tx, loopVars, obsVars, stepVars, farVars>>

\* load_typeql_schema_file, load_typeql_data_file, generate_example_data
LoadSchemaFile ==
    /\ ExternalStep("load_schema", "load_data", "CalledProcessError")
    /\ UNCHANGED <<dbVars, database, clientOpen, sessionOpen, tx, loopVars, obsVars, stepVars, farVars>>

LoadDataFile ==
    /\ ExternalStep("load_data", "generate_data", "CalledProcessError")
    /\ UNCHANGED <<dbVars, database, clientOpen, sessionOpen, tx, loopVars, obsVars, stepVars, farVars>>

GenerateExampleData ==
    /\ ExternalStep("generate_data", "session", "TypeDBClientException")
    /\ UNCHANGED <<dbVars, database, clientOpen, sessionOpen, tx, loopVars, obsVars, stepVars, farVars>>

\* session = client.session(database, SessionType.DATA)
OpenSession ==
    /\ ExternalStep("session", "prepare", "TypeDBClientException")
    /\ sessionOpen' = (pc' # "raised")
    /\ UNCHANGED <<dbVars, database, clientOpen, tx, loopVars, obsVars, stepVars, farVars>>

\* The types, encoders, transforms, dataset, split, model, optimizer and summary
\* writer: calls into kglib's data loader and torch, none of which the loop reads here.
PrepareModel ==
    /\ ExternalStep("prepare", "init_training", "RuntimeError")
    /\ UNCHANGED <<dbVars, database, clientOpen, sessionOpen, tx, loopVars, obsVars, stepVars, farVars>>

\* best_val_acc = 0; start_patience = patience = 100
InitTraining ==
    /\ pc = "init_training"
    /\ pc' = "train_loop"
    /\ epoch' = 0               \* no epoch run yet; range(1, 200) starts at 1
    /\ best_val_acc' = 0
    /\ patience' = start_patience
    /\ stopped' = FALSE
    /\ UNCHANGED <<dbVars, database, clientOpen, sessionOpen, tx, error, obsVars, stepVars, farVars>>

\* The test a strict comparison would make: an equal accuracy does not reset.
ValAccResets_strict(best, val_acc) == best < val_acc

\* if best_val_acc <= val_acc:
ValAccResets(best, val_acc) == best <= val_acc

\* One pass of the loop body in which train() and test() return, test() reporting
\* val_acc: the patience bookkeeping and the break.
EpochStep(val_acc) ==
    /\ pc = "train_loop"
    /\ epoch + 1 < EpochRangeEnd
    /\ epoch' = epoch + 1
    /\ IF ValAccResets(best_val_acc, val_acc)
         THEN patience' = start_patience /\ best_val_acc' = val_acc
         ELSE patience' = patience - 1 /\ best_val_acc' = best_val_acc
    /\ stopped' = (patience' <= 0)                  \* if patience <= 0: break
    /\ pc' = IF patience' <= 0 THEN "decode" ELSE "train_loop"
    /\ UNCHANGED <<dbVars, database, clientOpen, sessionOpen, tx, error>>

\* The observers' step on an epoch whose validation accuracy is val_acc. best_val_acc
\* is, before the epoch, the best validation accuracy seen so far (0 before any). The
\* first epoch, before which no accuracy was seen, counts as an improvement.
Observe(val_acc) ==
    /\ below' = IF val_acc < best_val_acc THEN below + 1 ELSE 0
    /\ noImprove' = IF epoch = 0 \/ val_acc > best_val_acc THEN 0 ELSE noImprove + 1

TrainEpoch == \E val_acc \in ValAccs : EpochStep(val_acc) /\ UNCHANGED <<obsVars, stepVars, farVars>>

TrainEpochObserved ==
    \E val_acc \in ValAccs :
        EpochStep(val_acc) /\ Observe(val_acc) /\ UNCHANGED <<stepVars, farVars>>

\* train() or test() raises in the loop body.
EpochFails ==
    /\ pc = "train_loop"
    /\ epoch + 1 < EpochRangeEnd
    /\ pc' = "raised"
    /\ error' = "RuntimeError"
    /\ epoch' = epoch + 1
    /\ UNCHANGED <<dbVars, database, clientOpen, sessionOpen, tx,
                   best_val_acc, patience, stopped, obsVars, stepVars, farVars>>

\* range(1, 200) is exhausted: the loop ends without a break.
LoopExhausted ==
    /\ pc = "train_loop"
    /\ epoch + 1 = EpochRangeEnd
    /\ pc' = "decode"
    /\ UNCHANGED <<dbVars, database, clientOpen, sessionOpen, tx, error, loopVars, obsVars, stepVars, farVars>>

\* z = model.encode(...); final_edge_index = model.decode_all(z)
DecodeAll ==
    /\ ExternalStep("decode", "open_tx", "RuntimeError")
    /\ UNCHANGED <<dbVars, database, clientOpen, sessionOpen, tx, loopVars, obsVars, stepVars, farVars>>

\* with session.transaction(TransactionType.WRITE) as tx:
OpenTransaction ==
    /\ ExternalStep("open_tx", "write_predictions", "TypeDBClientException")
    /\ tx' = IF pc' = "raised" THEN tx ELSE "open"
    /\ UNCHANGED <<dbVars, database, clientOpen, sessionOpen, loopVars, obsVars, stepVars, farVars>>

\* write_predictions_to_typedb(ge_graphs, tx): the name ge_graphs is bound nowhere, in
\* the function or in the module, so evaluating the argument raises NameError before
\* the call. The with block closes the transaction uncommitted and the exception
\* leaves diagnosis_example: session.close(), client.close() and the return
\* (diagnosis.py:269-272) are never reached.
WritePredictions ==
    /\ pc = "write_predictions"
    /\ pc' = "raised"
    /\ error' = "NameError"
    /\ tx' = "closed"
    /\ UNCHANGED <<dbVars, database, clientOpen, sessionOpen, loopVars, obsVars, stepVars, farVars>>

Init ==
    /\ databases \in SUBSET DatabaseNames
    /\ createCalls = <<>>
    /\ cdb_call = NoCall
    /\ pc = "delete_database"
    /\ database \in DatabaseNames
    /\ clientOpen = FALSE /\ sessionOpen = FALSE /\ tx = "none" /\ error = "none"
    /\ IdleLoop /\ IdleObs /\ IdleSteps /\ IdleFar

Next ==
    \/ DeleteDatabase \/ CoreClient \/ CreateDatabase
    \/ LoadSchemaFile \/ LoadDataFile \/ GenerateExampleData
    \/ OpenSession \/ PrepareModel
    \/ InitTraining \/ TrainEpoch \/ EpochFails \/ LoopExhausted
    \/ DecodeAll \/ OpenTransaction \/ WritePredictions

Spec == Init /\ [][Next]_vars

\* C2: when every external call succeeds, diagnosis_example runs to its end: it
\* commits the predictions in a write transaction, closes the session and the client
\* and returns. Stated on the runs that have ended: one that no external call's
\* failure ended has returned, with the transaction committed and both closed.
C2_RunsToCompletion ==
    (pc \in {"raised", "returned"} /\ error \notin ExternalErrors) =>
        /\ pc = "returned"
        /\ tx = "committed"
        /\ ~sessionOpen
        /\ ~clientOpen

(***************************************************************************)
(* The training loop on its own (diagnosis.py:239-260), with its observers *)
(***************************************************************************)
InitTrain ==
    /\ IdleDb
    /\ pc = "init_training"
    /\ database = DATABASE
    /\ clientOpen = TRUE /\ sessionOpen = TRUE /\ tx = "none" /\ error = "none"
    /\ IdleLoop /\ IdleObs /\ IdleSteps /\ IdleFar

NextTrain == InitTraining \/ TrainEpochObserved \/ EpochFails \/ LoopExhausted

SpecTrain == InitTrain /\ [][NextTrain]_vars

\* The loop has run at least one epoch and has not been ended by an exception.
InLoop == pc \in {"train_loop", "decode"} /\ epoch >= 1

\* C3 as claimed: the loop breaks if and only if the validation accuracy did not
\* exceed the best seen so far for start_patience consecutive epochs.
C3_StopsIffNoImprovement ==
    InLoop => (stopped <=> noImprove >= start_patience)

\* C3 as amended: the loop breaks if and only if the validation accuracy was strictly
\* below the best seen so far for start_patience consecutive epochs; an epoch that
\* equals the best resets the patience.
C3_StopsIffBelowBest ==
    InLoop => (stopped <=> below >= start_patience)

\* An early stop that followed a plateau: more than start_patience epochs without an
\* improvement, the last start_patience of them below the best.
C3_Witness ==
    /\ stopped
    /\ pc = "decode"
    /\ epoch + 1 < EpochRangeEnd
    /\ below = start_patience
    /\ noImprove > start_patience

(***************************************************************************)
(* The training loop statement by statement (diagnosis.py:241-260): the    *)
(* call of train(), the call of test() and the early-stopping check of a   *)
(* pass are steps of their own.                                            *)
(***************************************************************************)
\* A range that includes its end.
EpochInRange_inclusive(e) == e <= EpochRangeEnd

\* for epoch in range(1, 200): e is one of the epochs of the range.
EpochInRange(e) == 1 <= e /\ e < EpochRangeEnd

\* for epoch in range(1, 200): loss = train(). train() returns, or it raises.
CallTrain ==
    /\ pc = "train_loop"
    /\ EpochInRange(epoch + 1)
    /\ epoch' = epoch + 1
    /\ trainCalls' = trainCalls + 1
    /\ passSteps' = <<"train">>
    /\ \/ pc' = "test" /\ error' = error
       \/ pc' = "raised" /\ error' = "RuntimeError"
    /\ UNCHANGED <<dbVars, database, clientOpen, sessionOpen, tx, best_val_acc, patience,
                   stopped, last_val_acc, testCalls, obsVars, farVars>>

\* train_acc, val_acc, test_acc = test(). test() returns, or it raises.
CallTest ==
    /\ pc = "test"
    /\ testCalls' = testCalls + 1
    /\ passSteps' = Append(passSteps, "test")
    /\ \/ pc' = "check" /\ error' = error /\ last_val_acc' \in ValAccs
       \/ pc' = "raised" /\ error' = "RuntimeError" /\ last_val_acc' = last_val_acc
    /\ UNCHANGED <<dbVars, database, clientOpen, sessionOpen, tx, loopVars,
                   trainCalls, obsVars, farVars>>

\* if best_val_acc <= val_acc: ... else: patience -= 1; if patience <= 0: break
CheckPatience ==
    /\ pc = "check"
    /\ passSteps' = Append(passSteps, "check")
    /\ IF ValAccResets(best_val_acc, last_val_acc)
         THEN patience' = start_patience /\ best_val_acc' = last_val_acc
         ELSE patience' = patience - 1 /\ best_val_acc' = best_val_acc
    /\ stopped' = (patience' <= 0)
    /\ pc' = IF patience' <= 0 THEN "decode" ELSE "train_loop"
    /\ UNCHANGED <<dbVars, database, clientOpen, sessionOpen, tx, error, epoch,
                   last_val_acc, trainCalls, testCalls, obsVars, farVars>>

\* range(1, 200) is exhausted: the loop ends without a break.
RangeExhausted ==
    /\ pc = "train_loop"
    /\ ~EpochInRange(epoch + 1)
    /\ pc' = "decode"
    /\ UNCHANGED <<dbVars, database, clientOpen, sessionOpen, tx, error, loopVars,
                   obsVars, stepVars, farVars>>

NextEpochs == InitTraining \/ CallTrain \/ CallTest \/ CheckPatience \/ RangeExhausted

SpecEpochs == InitTrain /\ [][NextEpochs]_vars

\* The interpreter goes on to the next statement as long as there is one.
SpecEpochsFair == SpecEpochs /\ WF_vars(NextEpochs)

\* The loop is over: left by the break or by the end of the range, or by an exception.
LoopOver == pc \in {"decode", "raised"}

\* C12: the training loop ends, whatever validation accuracies test() reports, after
\* at most 199 epochs; train() is called once in every epoch, and in every epoch that
\* reaches the early-stopping check test() was called once, after train() and before
\* the check.
C12_TerminatesWithin199Epochs ==
    /\ <>LoopOver
    /\ [](/\ epoch <= 199
          /\ pc # "init_training" => trainCalls = epoch
          /\ pc = "test" => passSteps = <<"train">> /\ testCalls = epoch - 1
          /\ pc = "check" => passSteps = <<"train", "test">> /\ testCalls = epoch
          /\ InLoop => passSteps = <<"train", "test", "check">> /\ testCalls = epoch)

\* The loop ran out of its range: 199 epochs, each with one train() and one test().
C12_Witness ==
    /\ pc = "decode"
    /\ ~stopped
    /\ epoch = 199
    /\ trainCalls = 199
    /\ testCalls = 199
    /\ passSteps = <<"train", "test", "check">>

(***************************************************************************)
(* write_predictions_to_typedb (diagnosis.py:400-436)                      *)
(***************************************************************************)
\* The class predictions of a node: 0 preexists, 1 does not exist, 2 exists.
Predictions == {0, 1, 2}
\* The type labels of the concepts of a graph.
TypeLabels == {"diagnosis", "candidate-diagnosis", "person", "disease"}
\* The concepts a node's neighbours carry: graph.nodes[neighbour]['concept'].
NeighbourConcepts == [type_label : {"person", "disease"}, iid : 1..MaxIid]
\* graph.neighbors(node), as the concepts of the neighbours in iteration order.
NeighbourLists ==
    UNION {[1..k -> NeighbourConcepts] : k \in 0..MaxNeighbours}
\* data of a node, with the neighbours of the node beside it.
NodeData == [prediction : Predictions, type_label : TypeLabels, neighbours : NeighbourLists]

\* The condition of lines 413 and 416 on a node.
Qualifies(data) ==
    /\ data.prediction = 2
    /\ data.type_label = "diagnosis" \/ data.type_label = "candidate-diagnosis"

\* for neighbour in neighbours: the locals <<person, disease>> after the loop over
\* the first k neighbours, from the locals loc before it.
RECURSIVE BindNeighbours(_, _, _)
BindNeighbours(loc, nbrs, k) ==
    IF k = 0 THEN loc
    ELSE LET before == BindNeighbours(loc, nbrs, k - 1)
             concept == nbrs[k]
         IN  IF concept.type_label = "person"
               THEN <<concept, before[2]>>
               ELSE <<before[1], concept>>

\* The body of the loop over the nodes (lines 413-435) on a node with `data`, the
\* locals being loc = <<person, disease>>: the locals after it, the exception it
\* raises ("none": none) and the insert it issues (<<>>: none). The query reads
\* person.iid and disease.iid: a local that no neighbour has bound yet, in this node
\* or an earlier one, raises UnboundLocalError.
NodeBody(loc, data) ==
    IF ~Qualifies(data)
      THEN [locals |-> loc, raised |-> "none", inserts |-> <<>>]
      ELSE LET bound == BindNeighbours(loc, data.neighbours, Len(data.neighbours)) IN
           IF bound[1] = Unbound \/ bound[2] = Unbound
             THEN [locals |-> bound, raised |-> "UnboundLocalError", inserts |-> <<>>]
             ELSE [locals |-> bound, raised |-> "none",
                   inserts |-> <<[op |-> "insert", person |-> bound[1].iid,
                                  disease |-> bound[2].iid]>>]

\* for graph in graphs: the next graph, of any number of nodes.
NextGraph ==
    /\ wp_pc = "graphs"
    /\ gi < numGraphs
    /\ gi' = gi + 1
    /\ numNodes' \in 0..MaxNodes
    /\ ni' = 0
    /\ wp_pc' = "nodes"
    /\ UNCHANGED <<numGraphs, person, disease, txLog, qualified, wp_error, exampleVars, otherVars, qhVars, lrVars, encVars>>

\* for node, data in graph.nodes(data=True): the next node, of any data.
VisitNode ==
    /\ wp_pc = "nodes"
    /\ ni < numNodes
    /\ \E data \in NodeData :
         LET r == NodeBody(<<person, disease>>, data) IN
           /\ ni' = ni + 1
           /\ person' = r.locals[1]
           /\ disease' = r.locals[2]
           /\ txLog' = txLog \o [i \in 1..Len(r.inserts) |->
                                   [op |-> "insert", graph |-> gi, node |-> ni + 1,
                                    person |-> r.inserts[i].person,
                                    disease |-> r.inserts[i].disease]]
           /\ qualified' = IF Qualifies(data)
                             THEN Append(qualified, <<gi, ni + 1>>) ELSE qualified
           /\ wp_error' = r.raised
           /\ wp_pc' = IF r.raised = "none" THEN "nodes" ELSE "raised"
    /\ UNCHANGED <<numGraphs, gi, numNodes, exampleVars, otherVars, qhVars, lrVars, encVars>>

\* The nodes of the current graph are exhausted.
EndGraph ==
    /\ wp_pc = "nodes"
    /\ ni = numNodes
    /\ wp_pc' = "graphs"
    /\ UNCHANGED <<numGraphs, gi, numNodes, ni, person, disease, txLog, qualified,
                   wp_error, exampleVars, otherVars, qhVars, lrVars, encVars>>

\* tx.commit(), once the graphs are exhausted.
Commit ==
    /\ wp_pc = "graphs"
    /\ gi = numGraphs
    /\ txLog' = Append(txLog, [op |-> "commit", graph |-> 0, node |-> 0,
                               person |-> 0, disease |-> 0])
    /\ wp_pc' = "returned"
    /\ UNCHANGED <<numGraphs, gi, numNodes, ni, person, disease, qualified,
                   wp_error, exampleVars, otherVars, qhVars, lrVars, encVars>>

InitWrite ==
    /\ IdleExampleVars /\ IdleOther /\ IdleQh /\ IdleLr /\ IdleEnc
    /\ wp_pc = "graphs"
    /\ numGraphs \in 0..MaxGraphs
    /\ gi = 0 /\ numNodes = 0 /\ ni = 0
    /\ person = Unbound /\ disease = Unbound
    /\ txLog = <<>> /\ qualified = <<>> /\ wp_error = "none"

NextWrite == NextGraph \/ VisitNode \/ EndGraph \/ Commit

SpecWrite == InitWrite /\ [][NextWrite]_vars

\* The call has ended, by returning or by an exception.
WriteEnded == wp_pc \in {"returned", "raised"}

\* The nodes the inserts of txLog were issued for, in order.
InsertedNodes ==
    LET ins == SelectSeq(txLog, LAMBDA e : e.op = "insert")
    IN  [i \in 1..Len(ins) |-> <<ins[i].graph, ins[i].node>>]

\* C4: write_predictions_to_typedb issues exactly one insert for each node, over all
\* graphs, whose prediction is 2 and whose type label is diagnosis or
\* candidate-diagnosis, and no insert for any other node: when the call has ended,
\* the nodes inserted for are the qualifying nodes, each once.
C4_OneInsertPerQualifyingNode ==
    WriteEnded => InsertedNodes = qualified

\* C5: write_predictions_to_typedb commits exactly once per call, after every insert
\* (also with no qualifying node, or no graph): when the call has ended, txLog holds
\* exactly one commit, and it is its last entry.
C5_CommitsOnceAfterInserts ==
    WriteEnded =>
        /\ Len(txLog) >= 1
        /\ txLog[Len(txLog)].op = "commit"
        /\ \A i \in 1..(Len(txLog) - 1) : txLog[i].op = "insert"

(***************************************************************************)
(* QueryGraph (kglib.utils.graph.query.query_graph): a networkx             *)
(* MultiDiGraph whose nodes are the variables of a query. Its nodes are     *)
(* modelled as a function from the variables to their solution, its edges,  *)
(* which may repeat, as a sequence.                                         *)
(***************************************************************************)
\* diagnosis.py:47
PREEXISTS == 0
\* The solution of a node that only an edge added.
NoSolution == -1

Range(f) == {f[i] : i \in DOMAIN f}

QueryGraph == [nodes |-> <<>>, edges |-> <<>>]

\* add_vars(vars, solution): a node per variable, with that solution.
add_vars(g, vs, solution) ==
    [g EXCEPT !.nodes = [v \in DOMAIN g.nodes \cup Range(vs) |->
                            IF v \in Range(vs) THEN solution ELSE g.nodes[v]]]

\* An edge from u to v: networkx adds the end nodes the graph lacks.
add_edge(g, u, v, type, solution) ==
    [nodes |-> [x \in DOMAIN g.nodes \cup {u, v} |->
                  IF x \in DOMAIN g.nodes THEN g.nodes[x] ELSE NoSolution],
     edges |-> Append(g.edges, [from |-> u, to |-> v, type |-> type, solution |-> solution])]

\* add_role_edge(relation_var, roleplayer_var, role_label, solution)
add_role_edge(g, relation_var, roleplayer_var, role_label, solution) ==
    add_edge(g, relation_var, roleplayer_var, role_label, solution)

\* add_has_edge(owner_var, attribute_var, solution)
add_has_edge(g, owner_var, attribute_var, solution) ==
    add_edge(g, owner_var, attribute_var, "has", solution)

(***************************************************************************)
(* TypeQL match queries, as the statements of their text: each statement   *)
(* has a variable, the type it isa, the role players <<role, variable>> of *)
(* a relation, and the attributes <<type, variable>> it has.               *)
(***************************************************************************)
Statement(v, players, type, has) ==
    [var |-> v, players |-> players, isa |-> type, has |-> has]

\* The variables of a query.
QueryVars(q) ==
    UNION {{q[i].var} \cup {pl[2] : pl \in Range(q[i].players)}
                      \cup {h[2] : h \in Range(q[i].has)} : i \in DOMAIN q}

\* The edges that represent a query: a role edge from the relation to each of its
\* role players, labelled with the role, and a has edge from each owner to its attribute.
QueryEdges(q) ==
    UNION {{[from |-> q[i].var, to |-> pl[2], type |-> pl[1]] : pl \in Range(q[i].players)}
           \cup {[from |-> q[i].var, to |-> h[2], type |-> "has"] : h \in Range(q[i].has)}
           : i \in DOMAIN q}

\* The places <<statement, position>> of the role players and of the attributes of a query.
RolePlayerPlaces(q) == UNION {{<<i, j>> : j \in DOMAIN q[i].players} : i \in DOMAIN q}
HasPlaces(q) == UNION {{<<i, j>> : j \in DOMAIN q[i].has} : i \in DOMAIN q}

\* How many times a query states the edge e.
QueryEdgeCount(q, e) ==
    Cardinality({pl \in RolePlayerPlaces(q) :
                    e = [from |-> q[pl[1]].var, to |-> q[pl[1]].players[pl[2]][2],
                         type |-> q[pl[1]].players[pl[2]][1]]})
    + Cardinality({pl \in HasPlaces(q) :
                    e = [from |-> q[pl[1]].var, to |-> q[pl[1]].has[pl[2]][2],
                         type |-> "has"]})

\* How many edges of the graph g are the edge e.
GraphEdgeCount(g, e) ==
    Cardinality({k \in DOMAIN g.edges :
                    [from |-> g.edges[k].from, to |-> g.edges[k].to,
                     type |-> g.edges[k].type] = e})

GraphEdges(g) ==
    {[from |-> g.edges[k].from, to |-> g.edges[k].to, type |-> g.edges[k].type] :
        k \in DOMAIN g.edges}

\* g is the graph representation of the query q.
IsGraphOf(g, q) ==
    /\ DOMAIN g.nodes = QueryVars(q)
    /\ \A e \in QueryEdges(q) \cup GraphEdges(g) :
         GraphEdgeCount(g, e) = QueryEdgeCount(q, e)

(***************************************************************************)
(* get_query_handles (diagnosis.py:283-397)                                *)
(***************************************************************************)
\* The answers of a query that a sampler is handed: lists of answers.
Answers == UNION {[1..k -> 1..MaxAnswerId] : k \in 0..MaxAnswers}

\* diagnosis.py:298-304
hereditary_query ==
    << Statement("p", <<>>, "person", <<>>),
       Statement("par", <<>>, "person", <<>>),
       Statement("ps", << <<"child", "p">>, <<"parent", "par">> >>, "parentship", <<>>),
       Statement("diag", << <<"patient", "par">>, <<"diagnosed-disease", "d">> >>,
                 "diagnosis", <<>>),
       Statement("d", <<>>, "disease", << <<"name", "n">> >>) >>

\* diagnosis.py:306-313
hereditary_query_graph ==
    LET vs == <<"p", "par", "ps", "d", "diag", "n">>
        g1 == add_vars(QueryGraph, vs, PREEXISTS)
        g2 == add_role_edge(g1, "ps", "p", "child", PREEXISTS)
        g3 == add_role_edge(g2, "ps", "par", "parent", PREEXISTS)
        g4 == add_role_edge(g3, "diag", "par", "patient", PREEXISTS)
        g5 == add_role_edge(g4, "diag", "d", "diagnosed-disease", PREEXISTS)
    IN  add_has_edge(g5, "d", "n", PREEXISTS)

\* diagnosis.py:316-320
consumption_query ==
    << Statement("p", <<>>, "person", <<>>),
       Statement("s", <<>>, "substance", << <<"name", "n">> >>),
       Statement("c", << <<"consumer", "p">>, <<"consumed-substance", "s">> >>,
                 "consumption", << <<"units-per-week", "u">> >>) >>

\* diagnosis.py:322-328
consumption_query_graph ==
    LET vs == <<"p", "s", "n", "c", "u">>
        g1 == add_vars(QueryGraph, vs, PREEXISTS)
        g2 == add_has_edge(g1, "s", "n", PREEXISTS)
        g3 == add_role_edge(g2, "c", "p", "consumer", PREEXISTS)
        g4 == add_role_edge(g3, "c", "s", "consumed-substance", PREEXISTS)
    IN  add_has_edge(g4, "c", "u", PREEXISTS)

\* diagnosis.py:331-333
person_age_query ==
    << Statement("p", <<>>, "person", << <<"age", "a">> >>) >>

\* diagnosis.py:335-338
person_age_query_graph ==
    LET vs == <<"p", "a">>
        g1 == add_vars(QueryGraph, vs, PREEXISTS)
    IN  add_has_edge(g1, "p", "a", PREEXISTS)

\* diagnosis.py:341-345
risk_factor_query ==
    << Statement("d", <<>>, "disease", <<>>),
       Statement("p", <<>>, "person", <<>>),
       Statement("r", << <<"person-at-risk", "p">>, <<"risked-disease", "d">> >>,
                 "risk-factor", <<>>) >>

\* diagnosis.py:347-351
risk_factor_query_graph ==
    LET vs == <<"p", "d", "r">>
        g1 == add_vars(QueryGraph, vs, PREEXISTS)
        g2 == add_role_edge(g1, "r", "p", "person-at-risk", PREEXISTS)
    IN  add_role_edge(g2, "r", "d", "risked-disease", PREEXISTS)

\* diagnosis.py:356-362
symptom_query ==
    << Statement("p", <<>>, "person", <<>>),
       Statement("s", <<>>, "symptom", << <<"name", "sn">> >>),
       Statement("d", <<>>, "disease", << <<"name", "dn">> >>),
       Statement("sp", << <<"presented-symptom", "s">>, <<"symptomatic-patient", "p">> >>,
                 "symptom-presentation", << <<"severity", "sev">> >>),
       Statement("c", << <<"cause", "d">>, <<"effect", "s">> >>, "causality", <<>>) >>

\* diagnosis.py:354, 364-372
symptom_query_graph ==
    LET vs == <<"p", "s", "sn", "d", "dn", "sp", "sev", "c">>
        g1 == add_vars(QueryGraph, vs, PREEXISTS)
        g2 == add_has_edge(g1, "s", "sn", PREEXISTS)
        g3 == add_has_edge(g2, "d", "dn", PREEXISTS)
        g4 == add_role_edge(g3, "sp", "s", "presented-symptom", PREEXISTS)
        g5 == add_has_edge(g4, "sp", "sev", PREEXISTS)
        g6 == add_role_edge(g5, "sp", "p", "symptomatic-patient", PREEXISTS)
        g7 == add_role_edge(g6, "c", "s", "effect", PREEXISTS)
    IN  add_role_edge(g7, "c", "d", "cause", PREEXISTS)

\* diagnosis.py:378-382
diagnosis_query ==
    << Statement("p", <<>>, "person", <<>>),
       Statement("d", <<>>, "disease", << <<"name", "dn">> >>),
       Statement("diag", << <<"patient", "p">>, <<"diagnosed-disease", "d">> >>,
                 "diagnosis", <<>>) >>

\* diagnosis.py:376, 384-388: no has edge is added from d to dn.
diagnosis_query_graph ==
    LET g1 == add_vars(QueryGraph, <<"diag">>, PREEXISTS)
        g2 == add_vars(g1, <<"d", "p", "dn">>, PREEXISTS)
        g3 == add_role_edge(g2, "diag", "d", "diagnosed-disease", PREEXISTS)
    IN  add_role_edge(g3, "diag", "p", "patient", PREEXISTS)

\* lambda x: x
Sampler == [x \in Answers |-> x]

Handle(name) == <<qh_locals[name].query, Sampler, qh_locals[name].graph>>

\* A return that lists the diagnosis handle before the symptom handle.
ReturnedHandles_reordered ==
    << Handle("diagnosis"), Handle("symptom"), Handle("risk_factor"),
       Handle("person_age"), Handle("consumption"), Handle("hereditary") >>

\* The list of line 390-397, from the locals.
ReturnedHandles ==
    << Handle("symptom"), Handle("diagnosis"), Handle("risk_factor"),
       Handle("person_age"), Handle("consumption"), Handle("hereditary") >>

\* assert example_id == 0
AssertExampleId ==
    /\ qh_pc = "assert"
    /\ IF example_id = 0 THEN qh_pc' = "hereditary" ELSE qh_pc' = "raised"
    /\ UNCHANGED <<example_id, qh_locals, handles, sampled, exampleVars, otherVars, wpVars, lrVars, encVars>>

\* A feature's block: it binds the query and the QueryGraph of the feature.
BuildFeature(at, nxt, name, query, graph) ==
    /\ qh_pc = at
    /\ qh_pc' = nxt
    /\ qh_locals' = (name :> [query |-> query, graph |-> graph]) @@ qh_locals
    /\ UNCHANGED <<example_id, handles, sampled, exampleVars, otherVars, wpVars, lrVars, encVars>>

BuildHereditary ==
    BuildFeature("hereditary", "consumption", "hereditary",
                 hereditary_query, hereditary_query_graph)
BuildConsumption ==
    BuildFeature("consumption", "person_age", "consumption",
                 consumption_query, consumption_query_graph)
BuildPersonAge ==
    BuildFeature("person_age", "risk_factor", "person_age",
                 person_age_query, person_age_query_graph)
BuildRiskFactor ==
    BuildFeature("risk_factor", "symptom", "risk_factor",
                 risk_factor_query, risk_factor_query_graph)
BuildSymptom ==
    BuildFeature("symptom", "diagnosis", "symptom", symptom_query, symptom_query_graph)
BuildDiagnosis ==
    BuildFeature("diagnosis", "return", "diagnosis", diagnosis_query, diagnosis_query_graph)

\* return [...]
ReturnHandles ==
    /\ qh_pc = "return"
    /\ qh_pc' = "returned"
    /\ handles' = ReturnedHandles
    /\ UNCHANGED <<example_id, qh_locals, sampled, exampleVars, otherVars, wpVars, lrVars, encVars>>

\* The caller samples the answers of a handle's query with the handle's sampler.
ApplySampler ==
    /\ qh_pc = "returned"
    /\ sampled = NotSampled    \* one call a run: a second would only overwrite sampled
    /\ \E h \in DOMAIN handles, x \in Answers :
         sampled' = [handle |-> h, arg |-> x, result |-> handles[h][2][x]]
    /\ UNCHANGED <<example_id, qh_pc, qh_locals, handles, exampleVars, otherVars, wpVars, lrVars, encVars>>

InitHandles ==
    /\ IdleExampleVars /\ IdleOther /\ IdleWp /\ IdleLr /\ IdleEnc
    /\ example_id \in 0..MaxExampleId
    /\ qh_pc = "assert"
    /\ qh_locals = <<>>
    /\ handles = <<>>
    /\ sampled = NotSampled

NextHandles ==
    \/ AssertExampleId
    \/ BuildHereditary \/ BuildConsumption \/ BuildPersonAge
    \/ BuildRiskFactor \/ BuildSymptom \/ BuildDiagnosis
    \/ ReturnHandles \/ ApplySampler

SpecHandles == InitHandles /\ [][NextHandles]_vars

\* C6: the QueryGraph of each of the six handles is the graph representation of the
\* handle's query: its nodes are the variables of the query, it has one role edge per
\* role player and one has edge per has constraint of the query, and no other edge.
C6_GraphsRepresentQueries ==
    qh_pc = "returned" =>
        \A h \in DOMAIN handles : IsGraphOf(handles[h][3], handles[h][1])

\* C7: get_query_handles fails its assertion and returns nothing for an example_id
\* other than 0; for 0 it returns the six handles of symptom, diagnosis, risk-factor,
\* person-age, consumption and hereditary, in this order, and every sampler returns
\* its argument.
C7_SixHandlesInOrder ==
    /\ example_id # 0 => qh_pc \in {"assert", "raised"} /\ handles = <<>>
    /\ example_id = 0 => qh_pc # "raised"
    /\ qh_pc = "returned" =>
         /\ Len(handles) = 6
         /\ <<handles[1][1], handles[1][3]>> = <<symptom_query, symptom_query_graph>>
         /\ <<handles[2][1], handles[2][3]>> = <<diagnosis_query, diagnosis_query_graph>>
         /\ <<handles[3][1], handles[3][3]>> = <<risk_factor_query, risk_factor_query_graph>>
         /\ <<handles[4][1], handles[4][3]>> = <<person_age_query, person_age_query_graph>>
         /\ <<handles[5][1], handles[5][3]>> = <<consumption_query, consumption_query_graph>>
         /\ <<handles[6][1], handles[6][3]>> = <<hereditary_query, hereditary_query_graph>>
         /\ \A h \in 1..6 : \A x \in Answers : handles[h][2][x] = x
    /\ sampled # NotSampled => sampled.result = sampled.arg

\* The sampler of the last handle was called on a list of answers, which it returned.
C7_Witness ==
    /\ qh_pc = "returned"
    /\ Len(handles) = 6
    /\ sampled.handle = 6
    /\ Len(sampled.arg) = MaxAnswers
    /\ sampled.result = sampled.arg

(***************************************************************************)
(* KGCNLearner.__call__ (learn.py:39-148): the training loop               *)
(***************************************************************************)
\* A test that logs the iterations before the multiples of log_every_epochs.
LogsResults_shifted(i, k) == (i + 1) % k = 0

\* if iteration % log_every_epochs == 0:
LogsResults(i, k) == i % k = 0

\* One iteration of the loop (learn.py:107-143): the training run, and on a logged
\* iteration the generalisation run and the seven appends. The values of a run are
\* named by the iteration that ran it.
Iterate ==
    /\ lr_pc = "loop"
    /\ iteration < num_training_iterations
    /\ train_values' = iteration
    /\ IF LogsResults(iteration, log_every_epochs)
         THEN /\ test_values' = iteration
              /\ losses_tr' = Append(losses_tr, train_values')
              /\ corrects_tr' = Append(corrects_tr, train_values')
              /\ solveds_tr' = Append(solveds_tr, train_values')
              /\ losses_ge' = Append(losses_ge, test_values')
              /\ corrects_ge' = Append(corrects_ge, test_values')
              /\ solveds_ge' = Append(solveds_ge, test_values')
              /\ logged_iterations' = Append(logged_iterations, iteration)
         ELSE UNCHANGED <<test_values, lrLists>>
    /\ iteration' = iteration + 1
    /\ UNCHANGED <<num_training_iterations, log_every_epochs, lr_pc, lr_error,
                   exampleVars, otherVars, wpVars, qhVars, encVars>>

\* range(num_training_iterations) is exhausted.
EndLoop ==
    /\ lr_pc = "loop"
    /\ iteration = num_training_iterations
    /\ lr_pc' = "plot"
    /\ UNCHANGED <<num_training_iterations, log_every_epochs, iteration, train_values,
                   test_values, lrLists, lr_error, exampleVars, otherVars, wpVars, qhVars, encVars>>

\* plot_across_training(...); plot_input_vs_output(ge_input_graphs, test_values, ...);
\* return train_values, test_values. A loop of no iteration has bound neither
\* test_values nor train_values: reading test_values raises UnboundLocalError.
PlotAndReturn ==
    /\ lr_pc = "plot"
    /\ IF test_values = Unrun
         THEN lr_pc' = "raised" /\ lr_error' = "UnboundLocalError"
         ELSE lr_pc' = "returned" /\ lr_error' = lr_error
    /\ UNCHANGED <<num_training_iterations, log_every_epochs, iteration, train_values,
                   test_values, lrLists, exampleVars, otherVars, wpVars, qhVars, encVars>>

InitLearner ==
    /\ IdleExampleVars /\ IdleOther /\ IdleWp /\ IdleQh /\ IdleEnc
    /\ num_training_iterations \in 0..MaxIterations
    /\ log_every_epochs \in 1..MaxLogEvery
    /\ lr_pc = "loop"
    /\ iteration = 0
    /\ train_values = Unrun /\ test_values = Unrun
    /\ EmptyLists
    /\ lr_error = "none"

NextLearner == Iterate \/ EndLoop \/ PlotAndReturn

SpecLearner == InitLearner /\ [][NextLearner]_vars

\* The iterations i in [0, n) with i % k = 0, ascending: 0, k, 2k, ...
MultiplesBelow(n, k) == [j \in 1..((n + k - 1) \div k) |-> (j - 1) * k]

\* C8: results are logged exactly at the iterations i in [0, N) with i % k = 0. After
\* every iteration logged_iterations is the ascending list of those i among the
\* iterations run, and the six lists of results are as long as it; after the loop
\* every iteration in [0, N) has run.
C8_LoggedEveryK ==
    /\ logged_iterations = MultiplesBelow(iteration, log_every_epochs)
    /\ \A l \in {losses_tr, corrects_tr, solveds_tr, losses_ge, corrects_ge, solveds_ge} :
         Len(l) = Len(logged_iterations)
    /\ lr_pc \in {"plot", "returned", "raised"} => iteration = num_training_iterations

\* A call that returned after logging more than once, its last iteration not logged.
C8_Witness ==
    /\ lr_pc = "returned"
    /\ log_every_epochs >= 2
    /\ Len(logged_iterations) >= 2
    /\ logged_iterations[Len(logged_iterations)] < num_training_iterations - 1

(***************************************************************************)
(* kglib.kgcn_experimental.encode, as encode_test.py exercises it. The     *)
(* module itself is not among the sources: encode_types_one_hot,           *)
(* graph_to_input_target and TypeEncoder are modelled from what the tests  *)
(* and the specification say of them.                                      *)
(***************************************************************************)
\* A one-hot that takes the index for a 1-based position.
OneHot_oneBased(index, depth) == [c \in 1..depth |-> IF c = index THEN 1 ELSE 0]

\* The one-hot vector of length depth with its 1 at the 0-based position index: the
\* vector is 1-based, so the 1 is at index + 1.
OneHot(index, depth) == [c \in 1..depth |-> IF c = index + 1 THEN 1 ELSE 0]

\* list.index(x), 0-based.
IndexOf(list, x) == (CHOOSE i \in DOMAIN list : list[i] = x) - 1

\* encode_test.py:33-34
all_node_types == <<"person", "parentship", "siblingship">>
all_edge_types == <<"parent", "child", "sibling">>

\* The graphs of at most MaxGraphNodes nodes: every node and every edge has a type.
\* A graph's nodes and edges are functions from the nodes and from the edges
\* <<sender, receiver>> to their data.
SourceGraphs ==
    UNION {UNION {[nodes : [1..n -> [type : Range(all_node_types)]],
                   edges : [E -> [type : Range(all_edge_types)]]]
                  : E \in SUBSET {e \in (1..n) \X (1..n) : e[1] # e[2]}}
           : n \in 0..MaxGraphNodes}

number_of_nodes(g) == Cardinality(DOMAIN g.nodes)
number_of_edges(g) == Cardinality(DOMAIN g.edges)

\* graph.add_node(node, features=...): the node is added, or its data updated.
add_node(g, node, features) ==
    [g EXCEPT !.nodes =
        [x \in DOMAIN g.nodes \cup {node} |->
            IF x = node
              THEN [type |-> IF node \in DOMAIN g.nodes THEN g.nodes[node].type ELSE "none",
                    one_hot_type |-> IF node \in DOMAIN g.nodes
                                       THEN g.nodes[node].one_hot_type ELSE <<>>,
                    features |-> features]
              ELSE g.nodes[x]]]

\* graph.add_edge(sender, receiver, features=...): the edge is added, with the end
\* nodes the graph lacks, or its data updated.
graph_add_edge(g, sender, receiver, features) ==
    LET e == <<sender, receiver>> IN
    [nodes |-> [x \in DOMAIN g.nodes \cup {sender, receiver} |->
                  IF x \in DOMAIN g.nodes THEN g.nodes[x]
                  ELSE [type |-> "none", one_hot_type |-> <<>>]],
     edges |-> [x \in DOMAIN g.edges \cup {e} |->
                  IF x = e
                    THEN [type |-> IF e \in DOMAIN g.edges THEN g.edges[e].type ELSE "none",
                          one_hot_type |-> IF e \in DOMAIN g.edges
                                             THEN g.edges[e].one_hot_type ELSE <<>>,
                          features |-> features]
                    ELSE g.edges[x]]]

\* encode_types_one_hot(graph, all_node_types, all_edge_types,
\*                      attribute='one_hot_type', type_attribute='type')
encode_types_one_hot(g, node_types, edge_types) ==
    [nodes |-> [x \in DOMAIN g.nodes |->
                  [type |-> g.nodes[x].type,
                   one_hot_type |-> OneHot(IndexOf(node_types, g.nodes[x].type),
                                           Len(node_types))]],
     edges |-> [e \in DOMAIN g.edges |->
                  [type |-> g.edges[e].type,
                   one_hot_type |-> OneHot(IndexOf(edge_types, g.edges[e].type),
                                           Len(edge_types))]]]

\* The nodes and the edges of a graph, in the order of iteration.
RECURSIVE SeqOf(_)
SeqOf(S) == IF S = {} THEN <<>>
            ELSE LET x == CHOOSE y \in S : TRUE IN <<x>> \o SeqOf(S \ {x})

\* for ... in graph.nodes(data=True): out.add_node(node, features=...), over the
\* first k nodes of ns.
RECURSIVE AddNodeFeatures(_, _, _, _, _)
AddNodeFeatures(out, g, ns, k, target) ==
    IF k = 0 THEN out
    ELSE add_node(AddNodeFeatures(out, g, ns, k - 1, target), ns[k],
                  IF target THEN "solution" ELSE g.nodes[ns[k]].one_hot_type)

\* An add_edge with the two ends of the edge exchanged.
RECURSIVE AddEdgeFeatures_swapped(_, _, _, _, _)
AddEdgeFeatures_swapped(out, g, es, k, target) ==
    IF k = 0 THEN out
    ELSE graph_add_edge(AddEdgeFeatures_swapped(out, g, es, k - 1, target),
                        es[k][2], es[k][1],
                        IF target THEN "solution" ELSE g.edges[es[k]].one_hot_type)

\* for sender, receiver, features in graph.edges(data=True):
\*     out.add_edge(sender, receiver, features=...), over the first k edges of es.
RECURSIVE AddEdgeFeatures(_, _, _, _, _)
AddEdgeFeatures(out, g, es, k, target) ==
    IF k = 0 THEN out
    ELSE graph_add_edge(AddEdgeFeatures(out, g, es, k - 1, target),
                        es[k][1], es[k][2],
                        IF target THEN "solution" ELSE g.edges[es[k]].one_hot_type)

\* graph_to_input_target(graph): two copies of the graph, the input graph with the
\* input features of every node and edge (their one-hot type), the target graph with
\* their target features (the solution, which the model leaves abstract).
graph_to_input_target(g) ==
    LET ns == SeqOf(DOMAIN g.nodes)
        es == SeqOf(DOMAIN g.edges)
        withFeatures(target) ==
            AddEdgeFeatures(AddNodeFeatures(g, g, ns, Len(ns), target),
                            g, es, Len(es), target)
    IN  <<withFeatures(FALSE), withFeatures(TRUE)>>

\* encode_types_one_hot(graph, all_node_types, all_edge_types, ...)  (encode_test.py:36, 48)
EncodeTypesOneHot ==
    /\ it_pc = "created"
    /\ it_pc' = "encoded"
    /\ it_graph' = encode_types_one_hot(it_graph, all_node_types, all_edge_types)
    /\ UNCHANGED <<input_graph, target_graph, teVars, exampleVars, otherVars, wpVars, qhVars, lrVars>>

\* input_graph, target_graph = graph_to_input_target(graph)  (encode_test.py:40, 52)
CallGraphToInputTarget ==
    /\ it_pc = "encoded"
    /\ it_pc' = "called"
    /\ input_graph' = graph_to_input_target(it_graph)[1]
    /\ target_graph' = graph_to_input_target(it_graph)[2]
    /\ UNCHANGED <<it_graph, teVars, exampleVars, otherVars, wpVars, qhVars, lrVars>>

InitInputTarget ==
    /\ IdleExampleVars /\ IdleOther /\ IdleWp /\ IdleQh /\ IdleLr /\ IdleTe
    /\ it_pc = "created"
    /\ it_graph \in SourceGraphs
    /\ input_graph = EmptyGraph
    /\ target_graph = EmptyGraph

NextInputTarget == EncodeTypesOneHot \/ CallGraphToInputTarget

SpecInputTarget == InitInputTarget /\ [][NextInputTarget]_vars

AttributeValues == {0, 1}
\* What the mock op may be told to return.
OpReturns == {"encoding_a", "encoding_b"}

\* The feature rows of an encoder of n types whose type index is at the 0-based
\* position i: the type index is one of 0..n-1.
FeatureRows(n, i) ==
    {row \in [1..RowLen -> 0..(MaxTypes - 1)] :
        /\ row[i + 1] \in 0..(n - 1)
        /\ \A c \in 1..RowLen : c # i + 1 => row[c] \in AttributeValues}

\* The batches of at most MaxRows rows.
FeatureBatches(n, i) == UNION {[1..k -> FeatureRows(n, i)] : k \in 1..MaxRows}

\* The one-hot encoding of the type index of each row: features[:, index] in one-hot,
\* of depth num_types.
TypeOneHot(n, i, features) ==
    [r \in 1..Len(features) |-> OneHot(features[r][i + 1], n)]

\* encoding = encode(features): the encoder hands op the one-hot matrix and returns
\* what op returns; the mock op records its argument and returns its return_value.
CallTypeEncoder ==
    /\ te_pc = "built"
    /\ te_pc' = "called"
    /\ op_calls' = Append(op_calls, TypeOneHot(num_types, type_indicator_index, te_features))
    /\ encoding' = op_return
    /\ UNCHANGED <<num_types, type_indicator_index, te_features, op_return,
                   itVars, exampleVars, otherVars, wpVars, qhVars, lrVars>>

\* The test reads the arguments of the call back: get_call_args(op_mock).
ReadCallArgs ==
    /\ te_pc = "called"
    /\ te_pc' = "checked"
    /\ UNCHANGED <<num_types, type_indicator_index, te_features, op_return, op_calls,
                   encoding, itVars, exampleVars, otherVars, wpVars, qhVars, lrVars>>

InitTypeEncoder ==
    /\ IdleExampleVars /\ IdleOther /\ IdleWp /\ IdleQh /\ IdleLr /\ IdleIt
    /\ te_pc = "built"
    /\ num_types \in 1..MaxTypes
    /\ type_indicator_index \in 0..(RowLen - 1)
    /\ te_features \in FeatureBatches(num_types, type_indicator_index)
    /\ op_return \in OpReturns
    /\ op_calls = <<>>
    /\ encoding = NoEncoding

NextTypeEncoder == CallTypeEncoder \/ ReadCallArgs

SpecTypeEncoder == InitTypeEncoder /\ [][NextTypeEncoder]_vars

\* C10: TypeEncoder(n, i, op) applied to a batch of rows calls op exactly once, with
\* the matrix that has, per row, a vector of length n with 1 at the position of the
\* row's type index (the value at feature index i) and 0 elsewhere, and returns what
\* op returns; for every type index in 0..n-1.
C10_TypeEncoderOneHot ==
    te_pc \in {"called", "checked"} =>
        /\ Len(op_calls) = 1
        /\ Len(op_calls[1]) = Len(te_features)
        /\ \A r \in 1..Len(te_features) :
             /\ DOMAIN op_calls[1][r] = 1..num_types
             /\ \A t \in 0..(num_types - 1) :
                  op_calls[1][r][t + 1] =
                      IF t = te_features[r][type_indicator_index + 1] THEN 1 ELSE 0
        /\ encoding = op_return

\* The case of the test: TypeEncoder(5, 0, op) on one row of type index 1 calls op
\* with [[0, 1, 0, 0, 0]] and returns op's return value.
C10_Witness ==
    /\ te_pc = "checked"
    /\ num_types = 5
    /\ type_indicator_index = 0
    /\ Len(te_features) = 1
    /\ te_features[1][1] = 1
    /\ op_calls = << << <<0, 1, 0, 0, 0>> >> >>
    /\ encoding = op_return

(***************************************************************************)
(* AttributeEncoder(num_types, type_indicator_index, op, attr_op), as      *)
(* TestAttributeEncoder builds and calls it (encode_test.py:81-102). The   *)
(* class is not among the sources, and encode_test.py does not import it.  *)
(***************************************************************************)
\* What the mock attr_op may be told to return: an encoding of the attribute value.
AttrReturns == UNION {[1..k -> AttributeValues] : k \in 1..MaxAttrLen}

\* The attribute value of a feature vector: the features other than the one at the
\* 0-based position i, in their order.
AttributeValue(i, features) ==
    [c \in 1..(Len(features) - 1) |-> IF c <= i THEN features[c] ELSE features[c + 1]]

\* A concatenation with the attribute encoding first.
AttributeConcat_attrFirst(one_hot, attr_encoding) == attr_encoding \o one_hot

\* The concatenation of the one-hot type encoding with the attribute encoding.
AttributeConcat(one_hot, attr_encoding) == one_hot \o attr_encoding

\* encoding = encode(features): the encoder hands attr_op the attribute value, hands
\* op the one-hot of the type index followed by what attr_op returned, and returns
\* what op returns; each mock records its argument and returns its return_value.
CallAttributeEncoder ==
    /\ ae_pc = "built"
    /\ ae_pc' = "called"
    /\ ae_attr_calls' = Append(ae_attr_calls, AttributeValue(ae_index, ae_features))
    /\ ae_op_calls' = Append(ae_op_calls,
                             AttributeConcat(OneHot(ae_features[ae_index + 1], ae_num_types),
                                             ae_attr_return))
    /\ ae_encoding' = ae_op_return
    /\ UNCHANGED <<ae_num_types, ae_index, ae_features, ae_op_return, ae_attr_return,
                   lsVars, cfVars, exampleVars, wpVars, qhVars, lrVars, encVars>>

\* The test reads the arguments of the calls back: get_call_args(op_mock),
\* get_call_args(attr_mock).
ReadAttributeCallArgs ==
    /\ ae_pc = "called"
    /\ ae_pc' = "checked"
    /\ UNCHANGED <<ae_num_types, ae_index, ae_features, ae_op_return, ae_attr_return,
                   ae_op_calls, ae_attr_calls, ae_encoding,
                   lsVars, cfVars, exampleVars, wpVars, qhVars, lrVars, encVars>>

InitAttributeEncoder ==
    /\ IdleExampleVars /\ IdleWp /\ IdleQh /\ IdleLr /\ IdleEnc /\ IdleLs /\ IdleCf
    /\ ae_pc = "built"
    /\ ae_num_types \in 1..MaxTypes
    /\ ae_index \in 0..(RowLen - 1)
    /\ ae_features \in FeatureRows(ae_num_types, ae_index)
    /\ ae_op_return \in OpReturns
    /\ ae_attr_return \in AttrReturns
    /\ ae_op_calls = <<>>
    /\ ae_attr_calls = <<>>
    /\ ae_encoding = NoEncoding

NextAttributeEncoder == CallAttributeEncoder \/ ReadAttributeCallArgs

SpecAttributeEncoder == InitAttributeEncoder /\ [][NextAttributeEncoder]_vars

LossLevels == {0, 1, 2}

\* self._model(input_ph, num_processing_steps): a list of outputs, one per processing
\* step; name tells the training outputs from the generalisation outputs.
ModelOutputs(name, steps) == [k \in 1..steps |-> [op |-> "output", of |-> name, step |-> k]]

\* loss_ops_from_difference(target_ph, output_ops): one loss op per output op.
loss_ops_from_difference(output_ops) ==
    [k \in DOMAIN output_ops |-> [op |-> "loss", output |-> output_ops[k]]]

\* A training loss that is not divided by the number of steps.
LossAcrossSteps_undivided(loss_ops, steps) ==
    [op |-> "truediv", x |-> [op |-> "sum", args |-> loss_ops], y |-> 1]

\* sum(loss_ops_tr) / self._num_processing_steps_tr
LossAcrossSteps(loss_ops, steps) ==
    [op |-> "truediv", x |-> [op |-> "sum", args |-> loss_ops], y |-> steps]

\* loss_ops_ge[-1]
FinalStepLoss(loss_ops) == loss_ops[Len(loss_ops)]

\* sum(values): 0 + values[1] + values[2] + ...
RECURSIVE SumSeq(_)
SumSeq(values) ==
    IF values = <<>> THEN 0
    ELSE SumSeq(SubSeq(values, 1, Len(values) - 1)) + values[Len(values)]

\* What sess.run evaluates a loss op to, as the fraction num / den, when the loss op
\* of step k of the outputs named n evaluates to env[n][k].
Eval(o, env) ==
    IF o.op = "truediv"
      THEN [num |-> SumSeq([k \in DOMAIN o.x.args |->
                               env[o.x.args[k].output.of][o.x.args[k].output.step]]),
            den |-> o.y]
      ELSE [num |-> env[o.output.of][o.output.step], den |-> 1]

\* learn.py:67-76. With no training step, sum([]) / 0 raises ZeroDivisionError; with
\* no generalisation step, loss_ops_ge[-1] raises IndexError.
BuildLossOps ==
    /\ ls_pc = "build"
    /\ LET output_ops_tr == ModelOutputs("tr", num_processing_steps_tr)
           output_ops_ge == ModelOutputs("ge", num_processing_steps_ge)
       IN  /\ loss_ops_tr' = loss_ops_from_difference(output_ops_tr)
           /\ IF num_processing_steps_tr = 0
                THEN /\ ls_pc' = "raised" /\ ls_error' = "ZeroDivisionError"
                     /\ UNCHANGED <<loss_op_tr, loss_ops_ge, loss_op_ge>>
                ELSE /\ loss_op_tr' = LossAcrossSteps(loss_ops_tr', num_processing_steps_tr)
                     /\ loss_ops_ge' = loss_ops_from_difference(output_ops_ge)
                     /\ IF loss_ops_ge' = <<>>
                          THEN /\ ls_pc' = "raised" /\ ls_error' = "IndexError"
                               /\ UNCHANGED loss_op_ge
                          ELSE /\ ls_pc' = "optimizer" /\ ls_error' = ls_error
                               /\ loss_op_ge' = FinalStepLoss(loss_ops_ge')
    /\ UNCHANGED <<num_processing_steps_tr, num_processing_steps_ge, minimize_calls,
                   step_losses, train_loss, test_loss,
                   aeVars, cfVars, exampleVars, wpVars, qhVars, lrVars, encVars>>

\* step_op = optimizer.minimize(loss_op_tr)
Minimize ==
    /\ ls_pc = "optimizer"
    /\ ls_pc' = "session"
    /\ minimize_calls' = Append(minimize_calls, loss_op_tr)
    /\ UNCHANGED <<num_processing_steps_tr, num_processing_steps_ge, loss_ops_tr,
                   loss_ops_ge, loss_op_tr, loss_op_ge, step_losses, train_loss,
                   test_loss, ls_error,
                   aeVars, cfVars, exampleVars, wpVars, qhVars, lrVars, encVars>>

\* train_values = sess.run({"step": step_op, ..., "loss": loss_op_tr, ...}): the
\* training run of an iteration, on graphs whose per-step losses are values.
RunTraining ==
    /\ ls_pc = "session"
    /\ ls_pc' = "trained"
    /\ \E values \in [1..num_processing_steps_tr -> LossLevels] :
         /\ step_losses' = [step_losses EXCEPT !.tr = values]
         /\ train_loss' = Eval(loss_op_tr, step_losses')
    /\ UNCHANGED <<num_processing_steps_tr, num_processing_steps_ge, loss_ops_tr,
                   loss_ops_ge, loss_op_tr, loss_op_ge, minimize_calls, test_loss, ls_error,
                   aeVars, cfVars, exampleVars, wpVars, qhVars, lrVars, encVars>>

\* test_values = sess.run({..., "loss": loss_op_ge, ...}): the generalisation run of a
\* logged iteration.
RunGeneralisation ==
    /\ ls_pc = "trained"
    /\ ls_pc' = "ran"
    /\ \E values \in [1..num_processing_steps_ge -> LossLevels] :
         /\ step_losses' = [step_losses EXCEPT !.ge = values]
         /\ test_loss' = Eval(loss_op_ge, step_losses')
    /\ UNCHANGED <<num_processing_steps_tr, num_processing_steps_ge, loss_ops_tr,
                   loss_ops_ge, loss_op_tr, loss_op_ge, minimize_calls, train_loss, ls_error,
                   aeVars, cfVars, exampleVars, wpVars, qhVars, lrVars, encVars>>

InitLosses ==
    /\ IdleExampleVars /\ IdleWp /\ IdleQh /\ IdleLr /\ IdleEnc /\ IdleAe /\ IdleCf
    /\ ls_pc = "build"
    /\ num_processing_steps_tr \in 0..MaxSteps
    /\ num_processing_steps_ge \in 0..MaxSteps
    /\ loss_ops_tr = <<>> /\ loss_ops_ge = <<>>
    /\ loss_op_tr = NoOp /\ loss_op_ge = NoOp
    /\ minimize_calls = <<>>
    /\ step_losses = [tr |-> <<>>, ge |-> <<>>]
    /\ train_loss = NoLoss /\ test_loss = NoLoss
    /\ ls_error = "none"

NextLosses == BuildLossOps \/ Minimize \/ RunTraining \/ RunGeneralisation

SpecLosses == InitLosses /\ [][NextLosses]_vars

\* C13: the loss the optimizer minimises is the sum of the num_processing_steps_tr
\* per-step training losses divided by num_processing_steps_tr, so that a training
\* run reports their mean; the generalisation loss is the loss of the final
\* generalisation step only; and the optimizer is never given the generalisation loss.
C13_MeanTrainingLossFinalGeneralisationLoss ==
    /\ ls_pc \in {"session", "trained", "ran"} =>
         /\ Len(minimize_calls) = 1
         /\ minimize_calls[1].op = "truediv"
         /\ minimize_calls[1].y = num_processing_steps_tr
         /\ minimize_calls[1].x.op = "sum"
         /\ Len(minimize_calls[1].x.args) = num_processing_steps_tr
         /\ \A k \in 1..num_processing_steps_tr :
              minimize_calls[1].x.args[k] =
                  [op |-> "loss", output |-> [op |-> "output", of |-> "tr", step |-> k]]
         /\ loss_op_ge = [op |-> "loss",
                          output |-> [op |-> "output", of |-> "ge",
                                      step |-> num_processing_steps_ge]]
    /\ \A k \in DOMAIN minimize_calls :
         /\ minimize_calls[k] # loss_op_ge
         /\ \A l \in Range(loss_ops_ge) : l \notin Range(minimize_calls[k].x.args)
    /\ ls_pc \in {"trained", "ran"} =>
         train_loss.num * Len(step_losses.tr) = SumSeq(step_losses.tr) * train_loss.den
    /\ ls_pc = "ran" =>
         /\ test_loss.den = 1
         /\ test_loss.num = step_losses.ge[num_processing_steps_ge]

\* A session of several training and generalisation steps whose mean training loss
\* differs from the loss of the final training step, and whose generalisation loss
\* differs from the mean of the generalisation steps.
C13_Witness ==
    /\ ls_pc = "ran"
    /\ num_processing_steps_tr >= 2
    /\ num_processing_steps_ge >= 2
    /\ train_loss.num # step_losses.tr[num_processing_steps_tr] * train_loss.den
    /\ test_loss.num * num_processing_steps_ge # SumSeq(step_losses.ge)

(***************************************************************************)
(* clear_unneeded_fields (diagnosis.py:128-146). A graph is the sequence   *)
(* of the data dicts of its nodes and the sequence of its edges, each with *)
(* its two end nodes and its data dict; a dict is a function from its keys *)
(* to their values. The two iterators (kglib.utils.graph.iterate) are not  *)
(* among the sources.                                                      *)
(***************************************************************************)
\* The keys the data of a node and of an edge may have.
NodeKeys == {"x", "type", "concept"}
EdgeKeys == {"edge_attr", "y_edge", "type", "concept"}

\* The dict of an element with the keys K: the value of a key names the key and the
\* element, so that no two values of a graph are equal.
DictOf(K, element) == [k \in K |-> <<k, element>>]

\* The data of n nodes, each with some of the keys of a node.
NodeLists(n) ==
    {[i \in 1..n |-> DictOf(K[i], <<"node", i>>)] : K \in [1..n -> SUBSET NodeKeys]}

\* m edges, each with some of the keys of an edge, in a graph of n nodes: an edge
\* goes from the first node to the last, and several edges may join the same nodes.
EdgeLists(n, m) ==
    {[j \in 1..m |-> [u |-> 1, v |-> n, data |-> DictOf(K[j], <<"edge", j>>)]]
        : K \in [1..m -> SUBSET EdgeKeys]}

\* d.clear()
EmptyDict == <<>>
\* d[key] = value
setitem(d, key, value) == [k \in DOMAIN d \cup {key} |-> IF k = key THEN value ELSE d[k]]

\* multidigraph_node_data_iterator(graph), multidigraph_edge_data_iterator(graph): the
\* nodes and the edges whose data dict the iterator yields, in order, each once.
multidigraph_node_data_iterator(g) == [k \in 1..Len(g.nodes) |-> k]
multidigraph_edge_data_iterator(g) == [k \in 1..Len(g.edges) |-> k]

\* The body of the first loop on a node's data (diagnosis.py:130-136).
ClearNodeData(node_data) ==
    LET x == node_data["x"]
        t == node_data["type"]
    IN  setitem(setitem(EmptyDict, "x", x), "type", t)

\* A body that does not put y_edge back, as the first loop does not put y back.
ClearEdgeData_withoutLabel(edge_data) ==
    LET x == edge_data["edge_attr"]
        t == edge_data["type"]
    IN  setitem(setitem(EmptyDict, "edge_attr", x), "type", t)

\* The body of the second loop on an edge's data (diagnosis.py:139-145).
ClearEdgeData(edge_data) ==
    LET x == edge_data["edge_attr"]
        y == edge_data["y_edge"]
        t == edge_data["type"]
    IN  setitem(setitem(setitem(EmptyDict, "edge_attr", x), "y_edge", y), "type", t)

\* The first loop from the k-th node of the iteration on: the nodes after it, and
\* whether a read of a missing key raised KeyError, which happens before clear().
RECURSIVE ClearNodes(_, _, _)
ClearNodes(nodes, order, k) ==
    IF k > Len(order) THEN [nodes |-> nodes, raised |-> "none"]
    ELSE IF ~({"x", "type"} \subseteq DOMAIN nodes[order[k]])
      THEN [nodes |-> nodes, raised |-> "KeyError"]
    ELSE ClearNodes([nodes EXCEPT ![order[k]] = ClearNodeData(nodes[order[k]])], order, k + 1)

\* The second loop from the k-th edge of the iteration on.
RECURSIVE ClearEdges(_, _, _)
ClearEdges(edges, order, k) ==
    IF k > Len(order) THEN [edges |-> edges, raised |-> "none"]
    ELSE IF ~({"edge_attr", "y_edge", "type"} \subseteq DOMAIN edges[order[k]].data)
      THEN [edges |-> edges, raised |-> "KeyError"]
    ELSE ClearEdges([edges EXCEPT ![order[k]].data = ClearEdgeData(edges[order[k]].data)],
                    order, k + 1)

\* clear_unneeded_fields(graph): the graph after the call, which is the one it
\* returns, and the exception that ended the call, if one did.
clear_unneeded_fields(g) ==
    LET n == ClearNodes(g.nodes, multidigraph_node_data_iterator(g), 1)
        e == ClearEdges(g.edges, multidigraph_edge_data_iterator(g), 1)
    IN  IF n.raised # "none"
          THEN [graph |-> [nodes |-> n.nodes, edges |-> g.edges], raised |-> n.raised]
          ELSE [graph |-> [nodes |-> n.nodes, edges |-> e.edges], raised |-> e.raised]

\* The transform calls clear_unneeded_fields(graph).
CallClearUnneededFields ==
    /\ cf_pc = "ready"
    /\ LET r == clear_unneeded_fields(cf_graph) IN
         /\ cf_graph' = r.graph
         /\ cf_first' = r.graph
         /\ cf_error' = r.raised
         /\ cf_pc' = IF r.raised = "none" THEN "cleared" ELSE "raised"
    /\ UNCHANGED <<cf_before, aeVars, lsVars, exampleVars, wpVars, qhVars, lrVars, encVars>>

\* clear_unneeded_fields is called on the graph it returned.
CallClearAgain ==
    /\ cf_pc = "cleared"
    /\ LET r == clear_unneeded_fields(cf_graph) IN
         /\ cf_graph' = r.graph
         /\ cf_error' = r.raised
         /\ cf_pc' = IF r.raised = "none" THEN "again" ELSE "raised"
    /\ UNCHANGED <<cf_before, cf_first, aeVars, lsVars, exampleVars, wpVars, qhVars,
                   lrVars, encVars>>

InitClear ==
    /\ IdleExampleVars /\ IdleWp /\ IdleQh /\ IdleLr /\ IdleEnc /\ IdleAe /\ IdleLs
    /\ cf_pc = "ready"
    /\ \E n \in 0..MaxCfNodes : \E m \in 0..(IF n = 0 THEN 0 ELSE MaxCfEdges) :
         \E ns \in NodeLists(n) : \E es \in EdgeLists(n, m) :
             cf_graph = [nodes |-> ns, edges |-> es]
    /\ cf_before = cf_graph
    /\ cf_first = EmptyGraph
    /\ cf_error = "none"

NextClear == CallClearUnneededFields \/ CallClearAgain

SpecClear == InitClear /\ [][NextClear]_vars

\* Every node of g has 'x' and 'type', every edge 'edge_attr', 'y_edge' and 'type'.
HasNeededFields(g) ==
    /\ \A i \in DOMAIN g.nodes : {"x", "type"} \subseteq DOMAIN g.nodes[i]
    /\ \A j \in DOMAIN g.edges : {"edge_attr", "y_edge", "type"} \subseteq DOMAIN g.edges[j].data

\* C14: on a graph whose nodes all have 'x' and 'type' and whose edges all have
\* 'edge_attr', 'y_edge' and 'type', clear_unneeded_fields returns; it leaves the
\* nodes and the edges those they were, the data of every node with the keys 'x' and
\* 'type' and no other, the data of every edge with the keys 'edge_attr', 'y_edge'
\* and 'type' and no other, every such key with the value it had; and a second call
\* changes nothing.
C14_KeepsNeededFieldsOnly ==
    (cf_pc # "ready" /\ HasNeededFields(cf_before)) =>
        /\ cf_pc \in {"cleared", "again"}
        /\ DOMAIN cf_first.nodes = DOMAIN cf_before.nodes
        /\ DOMAIN cf_first.edges = DOMAIN cf_before.edges
        /\ \A i \in DOMAIN cf_first.nodes :
             /\ DOMAIN cf_first.nodes[i] = {"x", "type"}
             /\ \A k \in {"x", "type"} : cf_first.nodes[i][k] = cf_before.nodes[i][k]
        /\ \A j \in DOMAIN cf_first.edges :
             /\ cf_first.edges[j].u = cf_before.edges[j].u
             /\ cf_first.edges[j].v = cf_before.edges[j].v
             /\ DOMAIN cf_first.edges[j].data = {"edge_attr", "y_edge", "type"}
             /\ \A k \in {"edge_attr", "y_edge", "type"} :
                  cf_first.edges[j].data[k] = cf_before.edges[j].data[k]
        /\ cf_pc = "again" => cf_graph = cf_first

\* Two calls on a graph of two nodes and an edge that had the needed fields and,
\* on a node and on the edge, a field that is not needed.
C14_Witness ==
    /\ cf_pc = "again"
    /\ HasNeededFields(cf_before)
    /\ Len(cf_before.nodes) = 2
    /\ Len(cf_before.edges) = 1
    /\ "concept" \in DOMAIN cf_before.nodes[2]
    /\ "concept" \in DOMAIN cf_before.edges[1].data
    /\ cf_graph # cf_before

====
